---- MODULE Spec2Model ----
(***************************************************************************)
(* Trading-session classifier of the QBox front end                        *)
(* (frontend/src/utils/tradingSessions.ts, used by frontend/src/App.tsx).  *)
(*                                                                         *)
(* An instant (a JavaScript Date) is the number of whole seconds since     *)
(* 2024-01-01T00:00:00Z.  Strings are sequences of one-character strings,  *)
(* so that parsing and formatting are computed and not assumed.            *)
(***************************************************************************)
EXTENDS Integers, Sequences, FiniteSets, TLC

VARIABLES
    catalog,    \* SESSION_DEFINITIONS, the module-level array of definitions
    env,        \* the JavaScript runtime: how Intl names the zone
    date,       \* the Date handed to the next call
    op,         \* the exported function (or helper) that ran last
    result,     \* what that call returned
    first,      \* history: the first classification of the behaviour
    app,        \* the App component: its state, its timer, what it shows
    held        \* the calls of the other callers and what they got back

vars == <<catalog, env, date, op, result, first, app, held>>

-----------------------------------------------------------------------------
(* Bounds of the model *)

\* how many of SampleDays the instants are drawn from
NumDays == 2

\* the one-second tick runs for the first MaxSec seconds of each hour
MaxSec == 1

\* how many of SampleDays the hourly caller draws its instants from
NumDstDays == 4

\* steps the caller takes between the remembered first classification and
\* its repetition
MaxBetween == 3

-----------------------------------------------------------------------------
(* Strings *)

DigitChars == <<"0", "1", "2", "3", "4", "5", "6", "7", "8", "9">>

IsDigit(c) == \E i \in 1..10 : DigitChars[i] = c

DigitVal(c) == (CHOOSE i \in 1..10 : DigitChars[i] = c) - 1

\* the value parseInt and Number give when there is no number to read;
\* no digit string reads as a negative number
NaN == 0 - 1

\* String.prototype.split(":") : the pieces between the separators
RECURSIVE split(_, _)
split(s, sep) ==
    IF \A i \in 1..Len(s) : s[i] # sep
    THEN <<s>>
    ELSE LET k == CHOOSE i \in 1..Len(s) :
                      s[i] = sep /\ \A j \in 1..(i - 1) : s[j] # sep
         IN  <<SubSeq(s, 1, k - 1)>> \o split(SubSeq(s, k + 1, Len(s)), sep)

\* the value of a run of digits, read left to right
RECURSIVE DigitsValue(_)
DigitsValue(s) ==
    IF Len(s) = 0 THEN 0
    ELSE DigitsValue(SubSeq(s, 1, Len(s) - 1)) * 10 + DigitVal(s[Len(s)])

\* the longest prefix of s made of digits
RECURSIVE DigitPrefix(_)
DigitPrefix(s) ==
    IF Len(s) = 0 \/ ~IsDigit(Head(s)) THEN <<>>
    ELSE <<Head(s)>> \o DigitPrefix(Tail(s))

\* parseInt(v, 10): the leading digits, NaN when there are none
parseInt(v) ==
    IF DigitPrefix(v) = <<>> THEN NaN ELSE DigitsValue(DigitPrefix(v))

\* Number(v): the whole string must be digits; the empty string is 0
Number(v) ==
    IF \A i \in 1..Len(v) : IsDigit(v[i]) THEN DigitsValue(v) ELSE NaN

\* hour * 60 + minute in JavaScript arithmetic: NaN is contagious
HourMinute(hour, minute) ==
    IF hour = NaN \/ minute = NaN THEN NaN ELSE hour * 60 + minute

\* JavaScript comparisons: any comparison with NaN is false
JsLeq(a, b) == a # NaN /\ b # NaN /\ a <= b
JsGeq(a, b) == a # NaN /\ b # NaN /\ a >= b
JsLt(a, b) == a # NaN /\ b # NaN /\ a < b

\* a number below 100 as two digits ("2-digit")
Pad2(n) == <<DigitChars[(n \div 10) + 1], DigitChars[(n % 10) + 1]>>

-----------------------------------------------------------------------------
(* The session catalog *)

NewYork == "America/New_York"
HongKong == "Asia/Hong_Kong"

\* a zone of the southern hemisphere, for computeDstLabel on other zones
Sydney == "Australia/Sydney"

\* a "HH:MM" literal of the source
HHMM(h, m) == Pad2(h) \o <<":">> \o Pad2(m)

TradingWindow(s, e) == [start |-> s, end |-> e]

\* a typo in one literal: HK Evening starts at 15:15, inside HK Regular
SESSION_DEFINITIONS_Typo ==
    << [name |-> "US Pre-market", market |-> "us", timeZone |-> NewYork,
        windows |-> <<TradingWindow(HHMM(4, 0), HHMM(9, 30))>>,
        supportsDst |-> "undefined"],
       [name |-> "US Regular", market |-> "us", timeZone |-> NewYork,
        windows |-> <<TradingWindow(HHMM(9, 30), HHMM(16, 0))>>,
        supportsDst |-> "undefined"],
       [name |-> "US After-hours", market |-> "us", timeZone |-> NewYork,
        windows |-> <<TradingWindow(HHMM(16, 0), HHMM(20, 0))>>,
        supportsDst |-> "undefined"],
       [name |-> "US Overnight", market |-> "us", timeZone |-> NewYork,
        windows |-> <<TradingWindow(HHMM(20, 0), HHMM(4, 0))>>,
        supportsDst |-> "undefined"],
       [name |-> "HK Regular", market |-> "hk", timeZone |-> HongKong,
        windows |-> <<TradingWindow(HHMM(9, 30), HHMM(12, 0)),
                      TradingWindow(HHMM(13, 0), HHMM(16, 0))>>,
        supportsDst |-> "false"],
       [name |-> "HK Evening", market |-> "hk", timeZone |-> HongKong,
        windows |-> <<TradingWindow(HHMM(15, 15), HHMM(3, 0))>>,
        supportsDst |-> "false"] >>

\* supportsDst left out of the HK Evening literal
SESSION_DEFINITIONS_NoFlag ==
    << [name |-> "US Pre-market", market |-> "us", timeZone |-> NewYork,
        windows |-> <<TradingWindow(HHMM(4, 0), HHMM(9, 30))>>,
        supportsDst |-> "undefined"],
       [name |-> "US Regular", market |-> "us", timeZone |-> NewYork,
        windows |-> <<TradingWindow(HHMM(9, 30), HHMM(16, 0))>>,
        supportsDst |-> "undefined"],
       [name |-> "US After-hours", market |-> "us", timeZone |-> NewYork,
        windows |-> <<TradingWindow(HHMM(16, 0), HHMM(20, 0))>>,
        supportsDst |-> "undefined"],
       [name |-> "US Overnight", market |-> "us", timeZone |-> NewYork,
        windows |-> <<TradingWindow(HHMM(20, 0), HHMM(4, 0))>>,
        supportsDst |-> "undefined"],
       [name |-> "HK Regular", market |-> "hk", timeZone |-> HongKong,
        windows |-> <<TradingWindow(HHMM(9, 30), HHMM(12, 0)),
                      TradingWindow(HHMM(13, 0), HHMM(16, 0))>>,
        supportsDst |-> "false"],
       [name |-> "HK Evening", market |-> "hk", timeZone |-> HongKong,
        windows |-> <<TradingWindow(HHMM(17, 15), HHMM(3, 0))>>,
        supportsDst |-> "undefined"] >>

\* supportsDst is an optional field: "undefined" when the literal omits it
\* US After-hours closed an hour early: no US session from 19:00 to 20:00
SESSION_DEFINITIONS_Gap ==
    << [name |-> "US Pre-market", market |-> "us", timeZone |-> NewYork,
        windows |-> <<TradingWindow(HHMM(4, 0), HHMM(9, 30))>>,
        supportsDst |-> "undefined"],
       [name |-> "US Regular", market |-> "us", timeZone |-> NewYork,
        windows |-> <<TradingWindow(HHMM(9, 30), HHMM(16, 0))>>,
        supportsDst |-> "undefined"],
       [name |-> "US After-hours", market |-> "us", timeZone |-> NewYork,
        windows |-> <<TradingWindow(HHMM(16, 0), HHMM(19, 0))>>,
        supportsDst |-> "undefined"],
       [name |-> "US Overnight", market |-> "us", timeZone |-> NewYork,
        windows |-> <<TradingWindow(HHMM(20, 0), HHMM(4, 0))>>,
        supportsDst |-> "undefined"],
       [name |-> "HK Regular", market |-> "hk", timeZone |-> HongKong,
        windows |-> <<TradingWindow(HHMM(9, 30), HHMM(12, 0)),
                      TradingWindow(HHMM(13, 0), HHMM(16, 0))>>,
        supportsDst |-> "false"],
       [name |-> "HK Evening", market |-> "hk", timeZone |-> HongKong,
        windows |-> <<TradingWindow(HHMM(17, 15), HHMM(3, 0))>>,
        supportsDst |-> "false"] >>

SESSION_DEFINITIONS ==
    << [name |-> "US Pre-market", market |-> "us", timeZone |-> NewYork,
        windows |-> <<TradingWindow(HHMM(4, 0), HHMM(9, 30))>>,
        supportsDst |-> "undefined"],
       [name |-> "US Regular", market |-> "us", timeZone |-> NewYork,
        windows |-> <<TradingWindow(HHMM(9, 30), HHMM(16, 0))>>,
        supportsDst |-> "undefined"],
       [name |-> "US After-hours", market |-> "us", timeZone |-> NewYork,
        windows |-> <<TradingWindow(HHMM(16, 0), HHMM(20, 0))>>,
        supportsDst |-> "undefined"],
       [name |-> "US Overnight", market |-> "us", timeZone |-> NewYork,
        windows |-> <<TradingWindow(HHMM(20, 0), HHMM(4, 0))>>,
        supportsDst |-> "undefined"],
       [name |-> "HK Regular", market |-> "hk", timeZone |-> HongKong,
        windows |-> <<TradingWindow(HHMM(9, 30), HHMM(12, 0)),
                      TradingWindow(HHMM(13, 0), HHMM(16, 0))>>,
        supportsDst |-> "false"],
       [name |-> "HK Evening", market |-> "hk", timeZone |-> HongKong,
        windows |-> <<TradingWindow(HHMM(17, 15), HHMM(3, 0))>>,
        supportsDst |-> "false"] >>

US_SESSION_ORDER ==
    <<"US Pre-market", "US Regular", "US After-hours", "US Overnight">>

HK_SESSION_ORDER == <<"HK Regular", "HK Evening">>

\* the value of a nullable result that is null (or undefined)
Null == [null |-> TRUE]

-----------------------------------------------------------------------------
(* The runtime's clock and time-zone data (Date, Intl.DateTimeFormat) *)

\* the days of 2024 the instants are drawn from, counted from January 1 = 0:
\* June 15, January 15, March 10 and November 3 (the two New York
\* transitions), July 1, January 1
SampleDays == <<166, 14, 69, 307, 182, 0>>

\* 2024-03-10T07:00:00Z and 2024-11-03T06:00:00Z: New York daylight time
NewYorkDstStart == 69 * 86400 + 7 * 3600
NewYorkDstEnd == 307 * 86400 + 6 * 3600

\* 2024-04-06T16:00:00Z and 2024-10-05T16:00:00Z: Sydney daylight time ends
\* and starts again
SydneyDstEnd == 96 * 86400 + 16 * 3600
SydneyDstStart == 278 * 86400 + 16 * 3600

\* minutes to add to UTC to get the zone's civil time at instant t
UtcOffsetMinutes(zone, t) ==
    CASE zone = NewYork ->
             IF t >= NewYorkDstStart /\ t < NewYorkDstEnd THEN 0 - 240 ELSE 0 - 300
      [] zone = HongKong -> 480
      [] zone = Sydney ->
             IF t < SydneyDstEnd \/ t >= SydneyDstStart THEN 660 ELSE 600
      [] OTHER -> 0

MonthLengths == <<31, 29, 31, 30, 31, 30, 31, 31, 30, 31, 30, 31>>

\* month and day-of-month of day d (0 = January 1) of 2024
RECURSIVE MonthDay(_, _)
MonthDay(d, m) ==
    IF d < MonthLengths[m] THEN [month |-> m, day |-> d + 1]
    ELSE MonthDay(d - MonthLengths[m], m + 1)

\* the civil fields of instant t in the zone
CivilTime(zone, t) ==
    LET local == t + UtcOffsetMinutes(zone, t) * 60
        d == local \div 86400
        s == local % 86400
        md == CASE d < 0 -> [month |-> 12, day |-> 32 + d]
                [] d > 365 -> [month |-> 1, day |-> d - 365]
                [] OTHER -> MonthDay(d, 1)
    IN  [year |-> CASE d < 0 -> 2023 [] d > 365 -> 2025 [] OTHER -> 2024,
         month |-> md.month, day |-> md.day,
         hour |-> s \div 3600, minute |-> (s % 3600) \div 60, second |-> s % 60]

\* the h24 hour cycle: midnight printed as hour 24
FormatHourMinuteParts_H24(t, timeZone) ==
    LET c == CivilTime(timeZone, t)
    IN  << [type |-> "hour", value |-> Pad2(IF c.hour = 0 THEN 24 ELSE c.hour)],
           [type |-> "literal", value |-> <<":">>],
           [type |-> "minute", value |-> Pad2(c.minute)] >>

\* Intl.DateTimeFormat("zh-CN", {timeZone, hour12: false, hour: "2-digit",
\* minute: "2-digit"}).formatToParts(date)
FormatHourMinuteParts(t, timeZone) ==
    LET c == CivilTime(timeZone, t)
    IN  << [type |-> "hour", value |-> Pad2(c.hour)],
           [type |-> "literal", value |-> <<":">>],
           [type |-> "minute", value |-> Pad2(c.minute)] >>

\* parts.find((part) => part.type === type)?.value ?? "0"
PartValueOrZero(parts, type) ==
    IF \E i \in 1..Len(parts) : parts[i].type = type
    THEN parts[CHOOSE i \in 1..Len(parts) :
                   parts[i].type = type
                   /\ \A j \in 1..(i - 1) : parts[j].type # type].value
    ELSE <<"0">>

\* the short zone name Intl gives in the "en-US" locale; which kind it is
\* depends on the runtime's locale data; the empty string stands for a
\* missing timeZoneName part (both are falsy)
TimeZoneNameShort(t, timeZone, style) ==
    LET off == UtcOffsetMinutes(timeZone, t)
        hours == (IF off < 0 THEN 0 - off ELSE off) \div 60
        gmt == <<"G", "M", "T">> \o (IF off < 0 THEN <<"-">> ELSE <<"+">>)
               \o (IF hours < 10 THEN <<DigitChars[hours + 1]>> ELSE Pad2(hours))
    IN  CASE style = "missing" -> <<>>
          [] style = "offset" -> gmt
          [] timeZone = NewYork ->
                 IF off = 0 - 240 THEN <<"E", "D", "T">> ELSE <<"E", "S", "T">>
          [] timeZone = HongKong -> <<"H", "K", "T">>
          [] timeZone = Sydney -> gmt
          [] OTHER -> <<"U", "T", "C">>

\* String.prototype.includes
includes(s, sub) ==
    \E i \in 1..(Len(s) - Len(sub) + 1) : SubSeq(s, i, i + Len(sub) - 1) = sub

\* String.prototype.toUpperCase on the letters a zone name can hold
LowerChars ==
    <<"a", "b", "c", "d", "e", "f", "g", "h", "i", "j", "k", "l", "m",
      "n", "o", "p", "q", "r", "s", "t", "u", "v", "w", "x", "y", "z">>

UpperChars ==
    <<"A", "B", "C", "D", "E", "F", "G", "H", "I", "J", "K", "L", "M",
      "N", "O", "P", "Q", "R", "S", "T", "U", "V", "W", "X", "Y", "Z">>

toUpperCase(s) ==
    [i \in 1..Len(s) |->
        IF \E k \in 1..26 : LowerChars[k] = s[i]
        THEN UpperChars[CHOOSE k \in 1..26 : LowerChars[k] = s[i]]
        ELSE s[i]]

\* seconds from the epoch to the civil time c read as UTC
CivilSeconds(c) ==
    LET RECURSIVE DaysBefore(_)
        DaysBefore(m) == IF m = 1 THEN 0 ELSE DaysBefore(m - 1) + MonthLengths[m - 1]
        d == CASE c.year < 2024 -> c.day - 32
               [] c.year > 2024 -> 365 + c.day
               [] OTHER -> DaysBefore(c.month) + c.day - 1
    IN  d * 86400 + c.hour * 3600 + c.minute * 60 + c.second

\* new Date(date.toLocaleString("en-US", {timeZone})): the zone's civil time,
\* printed to the second and read back as civil time of the host's zone
LocalizedDate(t, timeZone, hostZone) ==
    LET naive == CivilSeconds(CivilTime(timeZone, t))
        guess == naive - UtcOffsetMinutes(hostZone, naive) * 60
    IN  naive - UtcOffsetMinutes(hostZone, guess) * 60

\* date.getUTCFullYear() and Date.UTC(year, month, 1) for January and July
getUTCFullYear(t) == CivilTime("UTC", t).year

DateUTC(year, month) ==
    CivilSeconds([year |-> year, month |-> month + 1, day |-> 1,
                  hour |-> 0, minute |-> 0, second |-> 0])

-----------------------------------------------------------------------------
(* utils/tradingSessions.ts *)

DST_LABEL == "DST"
STANDARD_LABEL == "standard time"
NO_DST_LABEL == "standard time (no DST)"
UNKNOWN_LABEL == "unknown"

timeStringToMinutes(value) ==
    LET pieces == split(value, ":")
        hour == parseInt(pieces[1])
        minute == IF Len(pieces) >= 2 THEN parseInt(pieces[2]) ELSE NaN
    IN  HourMinute(hour, minute)

\* the minute rounded to the nearest one: the seconds taken into account
getMinutesInTimeZone_RoundsSeconds(t, timeZone) ==
    LET parts == FormatHourMinuteParts(t, timeZone)
        hour == Number(PartValueOrZero(parts, "hour"))
        minute == Number(PartValueOrZero(parts, "minute"))
    IN  HourMinute(hour, minute)
        + (IF CivilTime(timeZone, t).second >= 30 THEN 1 ELSE 0)

getMinutesInTimeZone(t, timeZone) ==
    LET parts == FormatHourMinuteParts(t, timeZone)
        hour == Number(PartValueOrZero(parts, "hour"))
        minute == Number(PartValueOrZero(parts, "minute"))
    IN  HourMinute(hour, minute)

\* the end minute counted in: an off-by-one of the non-wrapping branch
WindowContains_EndInclusive(window, currentMinutes) ==
    LET start == timeStringToMinutes(window.start)
        end == timeStringToMinutes(window.end)
    IN  IF JsLeq(start, end)
        THEN JsGeq(currentMinutes, start) /\ JsLeq(currentMinutes, end)
        ELSE JsGeq(currentMinutes, start) \/ JsLt(currentMinutes, end)

\* both halves required: && written for || in the cross-midnight branch
WindowContains_WrapAnd(window, currentMinutes) ==
    LET start == timeStringToMinutes(window.start)
        end == timeStringToMinutes(window.end)
    IN  IF JsLeq(start, end)
        THEN JsGeq(currentMinutes, start) /\ JsLt(currentMinutes, end)
        ELSE JsGeq(currentMinutes, start) /\ JsLt(currentMinutes, end)

\* start < end written for start <= end: equal bounds taken for a
\* cross-midnight window
WindowContains_WrapOnEqual(window, currentMinutes) ==
    LET start == timeStringToMinutes(window.start)
        end == timeStringToMinutes(window.end)
    IN  IF JsLt(start, end)
        THEN JsGeq(currentMinutes, start) /\ JsLt(currentMinutes, end)
        ELSE JsGeq(currentMinutes, start) \/ JsLt(currentMinutes, end)

\* the end minute counted in by the cross-midnight branch
WindowContains_WrapEndInclusive(window, currentMinutes) ==
    LET start == timeStringToMinutes(window.start)
        end == timeStringToMinutes(window.end)
    IN  IF JsLeq(start, end)
        THEN JsGeq(currentMinutes, start) /\ JsLt(currentMinutes, end)
        ELSE JsGeq(currentMinutes, start) \/ JsLeq(currentMinutes, end)

\* the test of one window against the current minute-of-day
WindowContains(window, currentMinutes) ==
    LET start == timeStringToMinutes(window.start)
        end == timeStringToMinutes(window.end)
    IN  IF JsLeq(start, end)
        THEN JsGeq(currentMinutes, start) /\ JsLt(currentMinutes, end)
        ELSE JsGeq(currentMinutes, start) \/ JsLt(currentMinutes, end)

\* every window must match: Array.every written for Array.some
isWithinWindow_Every(t, definition) ==
    LET currentMinutes == getMinutesInTimeZone(t, definition.timeZone)
    IN  \A i \in 1..Len(definition.windows) :
            WindowContains(definition.windows[i], currentMinutes)

isWithinWindow(t, definition) ==
    LET currentMinutes == getMinutesInTimeZone(t, definition.timeZone)
    IN  \E i \in 1..Len(definition.windows) :
            WindowContains(definition.windows[i], currentMinutes)

getTimeZoneOffsetMinutes(t, timeZone, rt) ==
    (t - LocalizedDate(t, timeZone, rt.hostZone)) \div 60

\* the supportsDst test left out
computeDstLabel_IgnoresFlag(definition, t, rt) ==
    IF definition = Null THEN UNKNOWN_LABEL
    ELSE
      LET tzNamePart == TimeZoneNameShort(t, definition.timeZone, rt.tzName)
          upper == toUpperCase(tzNamePart)
          year == getUTCFullYear(t)
          currentOffset == getTimeZoneOffsetMinutes(t, definition.timeZone, rt)
          januaryOffset ==
              getTimeZoneOffsetMinutes(DateUTC(year, 0), definition.timeZone, rt)
          julyOffset ==
              getTimeZoneOffsetMinutes(DateUTC(year, 6), definition.timeZone, rt)
          standardOffset == IF januaryOffset >= julyOffset THEN januaryOffset ELSE julyOffset
      IN  IF upper # <<>> /\ includes(upper, <<"D", "T">>) THEN DST_LABEL
          ELSE IF upper # <<>> /\ includes(upper, <<"S", "T">>) THEN STANDARD_LABEL
          ELSE IF currentOffset < standardOffset THEN DST_LABEL
          ELSE STANDARD_LABEL

\* the zone name never looked at: the label taken from the offsets alone
computeDstLabel_OffsetOnly(definition, t, rt) ==
    IF definition = Null THEN UNKNOWN_LABEL
    ELSE IF definition.supportsDst = "false" THEN NO_DST_LABEL
    ELSE
      LET year == getUTCFullYear(t)
          currentOffset == getTimeZoneOffsetMinutes(t, definition.timeZone, rt)
          januaryOffset ==
              getTimeZoneOffsetMinutes(DateUTC(year, 0), definition.timeZone, rt)
          julyOffset ==
              getTimeZoneOffsetMinutes(DateUTC(year, 6), definition.timeZone, rt)
          standardOffset == IF januaryOffset >= julyOffset THEN januaryOffset ELSE julyOffset
      IN  IF currentOffset < standardOffset THEN DST_LABEL ELSE STANDARD_LABEL

\* Math.min written for Math.max
computeDstLabel_MinBaseline(definition, t, rt) ==
    IF definition = Null THEN UNKNOWN_LABEL
    ELSE IF definition.supportsDst = "false" THEN NO_DST_LABEL
    ELSE
      LET tzNamePart == TimeZoneNameShort(t, definition.timeZone, rt.tzName)
          upper == toUpperCase(tzNamePart)
          year == getUTCFullYear(t)
          currentOffset == getTimeZoneOffsetMinutes(t, definition.timeZone, rt)
          januaryOffset ==
              getTimeZoneOffsetMinutes(DateUTC(year, 0), definition.timeZone, rt)
          julyOffset ==
              getTimeZoneOffsetMinutes(DateUTC(year, 6), definition.timeZone, rt)
          standardOffset == IF januaryOffset <= julyOffset THEN januaryOffset ELSE julyOffset
      IN  IF upper # <<>> /\ includes(upper, <<"D", "T">>) THEN DST_LABEL
          ELSE IF upper # <<>> /\ includes(upper, <<"S", "T">>) THEN STANDARD_LABEL
          ELSE IF currentOffset < standardOffset THEN DST_LABEL
          ELSE STANDARD_LABEL

computeDstLabel(definition, t, rt) ==
    IF definition = Null THEN UNKNOWN_LABEL
    ELSE IF definition.supportsDst = "false" THEN NO_DST_LABEL
    ELSE
      LET tzNamePart == TimeZoneNameShort(t, definition.timeZone, rt.tzName)
          upper == toUpperCase(tzNamePart)
          year == getUTCFullYear(t)
          january == DateUTC(year, 0)
          july == DateUTC(year, 6)
          currentOffset == getTimeZoneOffsetMinutes(t, definition.timeZone, rt)
          januaryOffset == getTimeZoneOffsetMinutes(january, definition.timeZone, rt)
          julyOffset == getTimeZoneOffsetMinutes(july, definition.timeZone, rt)
          standardOffset == IF januaryOffset >= julyOffset THEN januaryOffset ELSE julyOffset
      IN  IF upper # <<>> /\ includes(upper, <<"D", "T">>) THEN DST_LABEL
          ELSE IF upper # <<>>
                  /\ (includes(upper, <<"S", "T">>)
                      \/ includes(upper, <<"S", "T", "A", "N", "D", "A", "R", "D">>))
               THEN STANDARD_LABEL
          ELSE IF currentOffset < standardOffset THEN DST_LABEL
          ELSE STANDARD_LABEL

\* zh-CN, 2-digit month, day, hour, minute, second: "MM/DD HH:MM:SS"
formatLocalTime_DayFirst(t, timeZone) ==
    LET c == CivilTime(timeZone, t)
    IN  Pad2(c.day) \o <<"/">> \o Pad2(c.month) \o <<" ">> \o Pad2(c.hour)
        \o <<":">> \o Pad2(c.minute) \o <<":">> \o Pad2(c.second)

formatLocalTime(t, timeZone) ==
    LET c == CivilTime(timeZone, t)
    IN  Pad2(c.month) \o <<"/">> \o Pad2(c.day) \o <<" ">> \o Pad2(c.hour)
        \o <<":">> \o Pad2(c.minute) \o <<":">> \o Pad2(c.second)

\* a name that is not found replaced by the first definition of the array:
\* "?? defs[0]" written for the filter
RECURSIVE OrderedDefinitions_FirstForMissing(_, _)
OrderedDefinitions_FirstForMissing(order, defs) ==
    IF order = <<>> THEN <<>>
    ELSE LET name == Head(order)
             found == IF \E i \in 1..Len(defs) : defs[i].name = name
                      THEN <<defs[CHOOSE i \in 1..Len(defs) :
                                      defs[i].name = name
                                      /\ \A j \in 1..(i - 1) : defs[j].name # name]>>
                      ELSE <<defs[1]>>
         IN  found \o OrderedDefinitions_FirstForMissing(Tail(order), defs)

\* ORDER.map((name) => defs.find((def) => def.name === name)).filter(Boolean)
RECURSIVE OrderedDefinitions(_, _)
OrderedDefinitions(order, defs) ==
    IF order = <<>> THEN <<>>
    ELSE LET name == Head(order)
             found == IF \E i \in 1..Len(defs) : defs[i].name = name
                      THEN <<defs[CHOOSE i \in 1..Len(defs) :
                                      defs[i].name = name
                                      /\ \A j \in 1..(i - 1) : defs[j].name # name]>>
                      ELSE <<>>
         IN  found \o OrderedDefinitions(Tail(order), defs)

\* the last active definition taken: a loop that does not stop at a match
FindCurrent_Last(definitions, t) ==
    IF \E i \in 1..Len(definitions) : isWithinWindow(t, definitions[i])
    THEN definitions[CHOOSE i \in 1..Len(definitions) :
                         isWithinWindow(t, definitions[i])
                         /\ \A j \in (i + 1)..Len(definitions) :
                                ~isWithinWindow(t, definitions[j])]
    ELSE Null

\* definitions.find((definition) => isWithinWindow(date, definition)) ?? null
FindCurrent(definitions, t) ==
    IF \E i \in 1..Len(definitions) : isWithinWindow(t, definitions[i])
    THEN definitions[CHOOSE i \in 1..Len(definitions) :
                         isWithinWindow(t, definitions[i])
                         /\ \A j \in 1..(i - 1) : ~isWithinWindow(t, definitions[j])]
    ELSE Null

\* the label taken from the session that matched
SessionSnapshot_LabelOfCurrent(definitions, t, timeZone, rt) ==
    [current |-> FindCurrent(definitions, t),
     localTime |-> formatLocalTime(t, timeZone),
     dstLabel |-> computeDstLabel(FindCurrent(definitions, t), t, rt)]

SessionSnapshot(definitions, t, timeZone, rt) ==
    [current |-> FindCurrent(definitions, t),
     localTime |-> formatLocalTime(t, timeZone),
     dstLabel |-> computeDstLabel(
                      IF Len(definitions) >= 1 THEN definitions[1] ELSE Null, t, rt)]

getUsSessionSnapshot(defs, t, rt) ==
    SessionSnapshot(OrderedDefinitions(US_SESSION_ORDER, defs), t, NewYork, rt)

\* the US order list used for the HK snapshot: a copy-paste slip
getHkSessionSnapshot_UsOrder(defs, t, rt) ==
    SessionSnapshot(OrderedDefinitions(US_SESSION_ORDER, defs), t, HongKong, rt)

getHkSessionSnapshot(defs, t, rt) ==
    SessionSnapshot(OrderedDefinitions(HK_SESSION_ORDER, defs), t, HongKong, rt)

\* the market's sessions listed last to first: a sort added to the filter
RECURSIVE listSessionsByMarket_Reversed(_, _)
listSessionsByMarket_Reversed(defs, market) ==
    IF defs = <<>> THEN <<>>
    ELSE listSessionsByMarket_Reversed(Tail(defs), market)
         \o (IF Head(defs).market = market THEN <<Head(defs)>> ELSE <<>>)

\* every market but "hk" taken for "us": a two-way test of the market
RECURSIVE listSessionsByMarket_DefaultUs(_, _)
listSessionsByMarket_DefaultUs(defs, market) ==
    IF defs = <<>> THEN <<>>
    ELSE (IF Head(defs).market = (IF market = "hk" THEN "hk" ELSE "us")
          THEN <<Head(defs)>> ELSE <<>>)
         \o listSessionsByMarket_DefaultUs(Tail(defs), market)

\* SESSION_DEFINITIONS.filter((definition) => definition.market === market)
RECURSIVE listSessionsByMarket(_, _)
listSessionsByMarket(defs, market) ==
    IF defs = <<>> THEN <<>>
    ELSE (IF Head(defs).market = market THEN <<Head(defs)>> ELSE <<>>)
         \o listSessionsByMarket(Tail(defs), market)

-----------------------------------------------------------------------------
(* The state machine: a caller of the exported functions *)

Markets == {"us", "hk"}

\* the instants of the sampled days, one per minute
MinuteInstants(days) ==
    {SampleDays[i] * 86400 + m * 60 : i \in 1..days, m \in 0..1439}

\* the instants of the sampled days, one per hour
HourInstants(days) ==
    {SampleDays[i] * 86400 + h * 3600 : i \in 1..days, h \in 0..23}

InHorizon(t) == \E i \in 1..NumDays : t \div 86400 = SampleDays[i]

\* the runtime the page usually runs in
DefaultRuntime == [tzName |-> "abbrev", hostZone |-> "UTC"]

\* outcome: "returned" when the call returned its value normally
NoCall == [arg |-> "none", value |-> "none", outcome |-> "none"]

NoFirst(state) == [state |-> state, market |-> "none", date |-> 0,
                   snapshot |-> Null, calls |-> 0]

\* the history of a classification call
Remember(market, snapshot) ==
    CASE first.state = "armed" ->
             [state |-> "set", market |-> market, date |-> date,
              snapshot |-> snapshot, calls |-> 0]
      [] first.state = "set" -> [first EXCEPT !.calls = @ + 1]
      [] OTHER -> first

Counted == IF first.state = "set" THEN [first EXCEPT !.calls = @ + 1] ELSE first

\* the App component before it is mounted
NoApp ==
    [mounted |-> FALSE, timer |-> "none", now |-> 0, stale |-> FALSE,
     dialogOpen |-> FALSE, shown |-> Null]

\* no other caller has called
NoHeld == <<>>

\* the caller holds no result and may call
MayCall == op = "none" /\ (first.state # "set" \/ first.calls < MaxBetween)

MayOther == first.state # "armed" /\ (first.state # "set" \/ first.calls < MaxBetween)

InitWith(catalogs, dates, memo) ==
    /\ catalog \in catalogs
    /\ env = DefaultRuntime
    /\ date \in dates
    /\ op = "none"
    /\ result = NoCall
    /\ first = NoFirst(memo)
    /\ app = NoApp
    /\ held = NoHeld

Init == InitWith({SESSION_DEFINITIONS}, MinuteInstants(NumDays), "off")

\* the catalog with the windows of its six definitions replaced: what an edit
\* of the window literals of SESSION_DEFINITIONS gives
CatalogWith(ws) ==
    [i \in 1..Len(SESSION_DEFINITIONS) |->
        [SESSION_DEFINITIONS[i] EXCEPT !.windows = ws[i]]]

\* the first session's window is the larger of two that overlap; a wrapping
\* window overlaps both; an empty window; two windows of one session overlap
OverlapFirstLarger ==
    << <<TradingWindow(HHMM(0, 0), HHMM(23, 59))>>,
       <<TradingWindow(HHMM(9, 30), HHMM(16, 0))>>,
       <<TradingWindow(HHMM(16, 0), HHMM(9, 30))>>,
       <<TradingWindow(HHMM(9, 30), HHMM(9, 30))>>,
       <<TradingWindow(HHMM(0, 0), HHMM(12, 0)),
         TradingWindow(HHMM(9, 30), HHMM(16, 0))>>,
       <<TradingWindow(HHMM(23, 59), HHMM(0, 0))>> >>

\* the first session's window is the smaller one; gaps with no session
OverlapFirstSmaller ==
    << <<TradingWindow(HHMM(9, 30), HHMM(16, 0))>>,
       <<TradingWindow(HHMM(4, 0), HHMM(20, 0))>>,
       <<TradingWindow(HHMM(22, 0), HHMM(2, 0))>>,
       <<TradingWindow(HHMM(23, 59), HHMM(0, 0))>>,
       <<TradingWindow(HHMM(12, 0), HHMM(13, 0))>>,
       <<TradingWindow(HHMM(4, 0), HHMM(20, 0))>> >>

TestCatalogs ==
    {SESSION_DEFINITIONS, CatalogWith(OverlapFirstLarger),
     CatalogWith(OverlapFirstSmaller)}

InitCfg == InitWith(TestCatalogs, MinuteInstants(1), "off")

GetUsSnapshot ==
    /\ MayCall
    /\ op' = "getUsSessionSnapshot"
    /\ result' = [arg |-> date, value |-> getUsSessionSnapshot(catalog, date, env),
                  outcome |-> "returned"]
    /\ first' = Remember("us", result'.value)
    /\ UNCHANGED <<catalog, env, date, app, held>>

GetHkSnapshot ==
    /\ MayCall
    /\ op' = "getHkSessionSnapshot"
    /\ result' = [arg |-> date, value |-> getHkSessionSnapshot(catalog, date, env),
                  outcome |-> "returned"]
    /\ first' = Remember("hk", result'.value)
    /\ UNCHANGED <<catalog, env, date, app, held>>

\* the listed sessions cut out of the shared array: splice written for filter
ListSessions_Splice(market) ==
    /\ MayCall
    /\ MayOther
    /\ op' = "listSessionsByMarket"
    /\ result' = [arg |-> market, value |-> listSessionsByMarket(catalog, market),
                  outcome |-> "returned"]
    /\ catalog' = SelectSeq(catalog, LAMBDA d : d.market # market)
    /\ first' = Counted
    /\ UNCHANGED <<env, date, app, held>>

\* a check of the argument put before the filter: a market outside the two
\* of the type makes the call throw
ListSessions_Rejecting(market) ==
    /\ MayCall
    /\ MayOther
    /\ op' = "listSessionsByMarket"
    /\ result' = IF market \in {"us", "hk"}
                 THEN [arg |-> market, value |-> listSessionsByMarket(catalog, market),
                       outcome |-> "returned"]
                 ELSE [arg |-> market, value |-> "none", outcome |-> "threw"]
    /\ first' = Counted
    /\ UNCHANGED <<catalog, env, date, app, held>>

ListSessions(market) ==
    /\ MayCall
    /\ MayOther
    /\ op' = "listSessionsByMarket"
    /\ result' = [arg |-> market, value |-> listSessionsByMarket(catalog, market),
                  outcome |-> "returned"]
    /\ first' = Counted
    /\ UNCHANGED <<catalog, env, date, app, held>>

\* isWithinWindow on the i-th definition of the catalog
TestWindow(i) ==
    /\ MayCall
    /\ MayOther
    /\ op' = "isWithinWindow"
    /\ result' = [arg |-> i, value |-> isWithinWindow(date, catalog[i]),
                  outcome |-> "returned"]
    /\ first' = Counted
    /\ UNCHANGED <<catalog, env, date, app, held>>

\* the caller drops the result it holds and turns to an instant a minute or
\* an hour away (step 0: it stays at the same instant)
ChooseDate(step) ==
    /\ MayOther
    /\ date % 60 = 0
    /\ InHorizon(date + step)
    /\ date' = date + step
    /\ op' = "none"
    /\ result' = NoCall
    /\ first' = Counted
    /\ UNCHANGED <<catalog, env, app, held>>

\* one second passes
TickSecond ==
    /\ MayOther
    /\ date % 3600 < MaxSec
    /\ date' = date + 1
    /\ op' = "none"
    /\ result' = NoCall
    /\ first' = Counted
    /\ UNCHANGED <<catalog, env, app, held>>

Next ==
    \/ GetUsSnapshot
    \/ GetHkSnapshot
    \/ \E market \in Markets : ListSessions(market)
    \/ \E i \in 1..Len(catalog) : TestWindow(i)
    \/ \E step \in {0, 60, 0 - 60, 3600} : ChooseDate(step)
    \/ TickSecond

Spec == Init /\ [][Next]_vars

\* the same caller over catalogs whose windows were edited
SpecCfg == InitCfg /\ [][Next]_vars

\* the caller makes its first classification again, with the same arguments
Reclassify ==
    /\ first.state = "set"
    /\ first.calls < MaxBetween
    /\ date' = first.date
    /\ op' = (IF first.market = "us" THEN "getUsSessionSnapshot"
              ELSE "getHkSessionSnapshot")
    /\ result' = [arg |-> first.date,
                  value |-> IF first.market = "us"
                            THEN getUsSessionSnapshot(catalog, first.date, env)
                            ELSE getHkSessionSnapshot(catalog, first.date, env),
                  outcome |-> "returned"]
    /\ first' = Counted
    /\ UNCHANGED <<catalog, env, app, held>>

InitIdem == InitWith({SESSION_DEFINITIONS}, HourInstants(NumDays), "armed")

NextIdem == Next \/ Reclassify

\* a caller that remembers its first classification and repeats it later
SpecIdem == InitIdem /\ [][NextIdem]_vars

-----------------------------------------------------------------------------
(* What the claims are stated against: civil time by arithmetic on the zone's
   offset, and a "HH:MM" literal read by position *)

RefMinuteOfDay(zone, t) == ((t + UtcOffsetMinutes(zone, t) * 60) \div 60) % 1440

RefMinutesOf(str) ==
    (DigitVal(str[1]) * 10 + DigitVal(str[2])) * 60
    + DigitVal(str[4]) * 10 + DigitVal(str[5])

RefContains(window, m) ==
    LET s == RefMinutesOf(window.start)
        e == RefMinutesOf(window.end)
    IN  IF s <= e THEN s <= m /\ m < e ELSE m >= s \/ m < e

RefActive(def, t) ==
    \E i \in 1..Len(def.windows) :
        RefContains(def.windows[i], RefMinuteOfDay(def.timeZone, t))

\* the definition a TestWindow call was made on
Tested == catalog[result.arg]

-----------------------------------------------------------------------------
(* C1 *)

\* C1: for a non-wrapping window (start <= end) and every minute-of-day m,
\* isWithinWindow is true exactly when start <= m < end
C1_NonWrappingWindow ==
    (op = "isWithinWindow" /\ Len(Tested.windows) = 1
     /\ RefMinutesOf(Tested.windows[1].start) <= RefMinutesOf(Tested.windows[1].end))
    => LET m == RefMinuteOfDay(Tested.timeZone, date)
       IN  result.value <=> (RefMinutesOf(Tested.windows[1].start) <= m
                             /\ m < RefMinutesOf(Tested.windows[1].end))

\* the minute equal to end, of a window that holds its last minute end - 1
C1_Witness ==
    /\ op = "isWithinWindow"
    /\ Len(Tested.windows) = 1
    /\ RefMinutesOf(Tested.windows[1].start) < RefMinutesOf(Tested.windows[1].end)
    /\ RefMinuteOfDay(Tested.timeZone, date) = RefMinutesOf(Tested.windows[1].end)
    /\ result.value = FALSE
    /\ isWithinWindow(date - 60, Tested)

-----------------------------------------------------------------------------
(* C2 *)

\* the minute-of-day in New York at the instant of the call
NewYorkMinute == RefMinuteOfDay(NewYork, date)

\* C2: a wrapping window (start > end) contains m exactly when m >= start or
\* m < end; the US overnight window 20:00-04:00 holds 21:00, 23:59 and 00:01
\* and not 04:00 or 19:59, and 21:00 New York time is the Overnight session
C2_WrappingWindow ==
    /\ (op = "isWithinWindow" /\ Len(Tested.windows) = 1
        /\ RefMinutesOf(Tested.windows[1].start) > RefMinutesOf(Tested.windows[1].end))
       => LET m == RefMinuteOfDay(Tested.timeZone, date)
          IN  result.value <=> (m >= RefMinutesOf(Tested.windows[1].start)
                                \/ m < RefMinutesOf(Tested.windows[1].end))
    /\ (op = "isWithinWindow" /\ catalog = SESSION_DEFINITIONS
        /\ Tested.name = "US Overnight")
       => /\ NewYorkMinute \in {21 * 60, 23 * 60 + 59, 1} => result.value
          /\ NewYorkMinute \in {4 * 60, 19 * 60 + 59} => ~result.value
    /\ (op = "getUsSessionSnapshot" /\ catalog = SESSION_DEFINITIONS
        /\ NewYorkMinute = 21 * 60)
       => result.value.current # Null
          /\ result.value.current.name = "US Overnight"

\* one minute past midnight lies in the overnight window
C2_Witness ==
    /\ op = "isWithinWindow"
    /\ catalog = SESSION_DEFINITIONS
    /\ Tested.name = "US Overnight"
    /\ NewYorkMinute = 1
    /\ result.value

-----------------------------------------------------------------------------
(* C3 *)

HongKongMinute == RefMinuteOfDay(HongKong, date)

\* C3: a definition is active exactly when at least one of its windows
\* contains the minute-of-day; HK Regular is active in 09:30-12:00 and
\* 13:00-16:00 and not in the lunch gap, where the HK snapshot has no session
C3_AnyWindow ==
    /\ op = "isWithinWindow" => (result.value <=> RefActive(Tested, date))
    /\ (op = "isWithinWindow" /\ catalog = SESSION_DEFINITIONS
        /\ Tested.name = "HK Regular")
       => (result.value <=> (HongKongMinute \in (570..719) \cup (780..959)))
    /\ (op = "getHkSessionSnapshot" /\ catalog = SESSION_DEFINITIONS
        /\ HongKongMinute \in 720..779)
       => result.value.current = Null

\* 12:30 in Hong Kong: no current session
C3_Witness ==
    /\ op = "getHkSessionSnapshot"
    /\ catalog = SESSION_DEFINITIONS
    /\ HongKongMinute = 12 * 60 + 30
    /\ result.value.current = Null

\* the second window of HK Regular makes it active
C3_WitnessSecondWindow ==
    /\ op = "isWithinWindow"
    /\ catalog = SESSION_DEFINITIONS
    /\ Tested.name = "HK Regular"
    /\ HongKongMinute = 13 * 60
    /\ result.value

-----------------------------------------------------------------------------
(* C4 *)

\* the order list of the market a snapshot call is about
OrderOf(name) ==
    IF name = "getUsSessionSnapshot" THEN US_SESSION_ORDER ELSE HK_SESSION_ORDER

\* the definition of the catalog with the name
Named(name) == catalog[CHOOSE i \in 1..Len(catalog) : catalog[i].name = name]

\* the positions of the order list whose session is active at the instant
ActivePositions(order) ==
    {k \in 1..Len(order) : RefActive(Named(order[k]), date)}

\* C4: the snapshot's current session is the first session of the market's
\* display order that is active, whatever the windows are, and null exactly
\* when no session of the market is active
C4_FirstMatchWins ==
    op \in {"getUsSessionSnapshot", "getHkSessionSnapshot"}
    => LET order == OrderOf(op)
           active == ActivePositions(order)
       IN  IF active = {}
           THEN result.value.current = Null
           ELSE result.value.current
                = Named(order[CHOOSE k \in active : \A j \in active : k <= j])

\* two sessions are active and the first one, whose window is the smaller,
\* is the current one
C4_Witness ==
    /\ op = "getUsSessionSnapshot"
    /\ catalog = CatalogWith(OverlapFirstSmaller)
    /\ ActivePositions(US_SESSION_ORDER) = {1, 2}
    /\ result.value.current = Named("US Pre-market")

-----------------------------------------------------------------------------
(* C5 *)

\* the windows (definition, window) of the market that contain the instant
WindowsContaining(market) ==
    {p \in (1..Len(catalog)) \X (1..2) :
        /\ catalog[p[1]].market = market
        /\ p[2] <= Len(catalog[p[1]].windows)
        /\ WindowContains(catalog[p[1]].windows[p[2]],
                          getMinutesInTimeZone(date, catalog[p[1]].timeZone))}

\* C5: under the canonical configuration at most one window of a market
\* contains any minute-of-day
C5_NoOverlap ==
    \A market \in Markets : Cardinality(WindowsContaining(market)) <= 1

\* 09:30 in New York, where Pre-market ends and Regular starts
C5_Witness ==
    /\ op = "getUsSessionSnapshot"
    /\ NewYorkMinute = 9 * 60 + 30
    /\ WindowsContaining("us") = {<<2, 1>>}
    /\ result.value.current = Named("US Regular")

-----------------------------------------------------------------------------
(* C6 *)

\* the runtimes a page can run in: how Intl names the zone, the host's zone
Runtimes ==
    {[tzName |-> n, hostZone |-> h] :
        n \in {"abbrev", "offset", "missing"},
        h \in {"UTC", NewYork, HongKong, Sydney}}

\* C6: the HK snapshot's DST label is always the fixed standard-time label,
\* and for a definition declared non-DST-observing computeDstLabel gives it
\* whatever the zone's abbreviation and offsets are
C6_HkLabelFixed ==
    /\ op = "getHkSessionSnapshot" => result.value.dstLabel = NO_DST_LABEL
    /\ \A i \in 1..Len(catalog) :
           catalog[i].supportsDst = "false"
           => \A rt \in Runtimes :
                  computeDstLabel(catalog[i], date, rt) = NO_DST_LABEL

C6_Witness ==
    /\ op = "getHkSessionSnapshot"
    /\ result.value.dstLabel = NO_DST_LABEL
    /\ result.value.current # Null

-----------------------------------------------------------------------------
(* C7 *)

\* the market of a snapshot call
MarketOf(name) == IF name = "getUsSessionSnapshot" THEN "us" ELSE "hk"

\* C7: classifying the same (market, instant) again, with other calls in
\* between, gives the same snapshot
C7_Idempotent ==
    (/\ first.state = "set"
     /\ op \in {"getUsSessionSnapshot", "getHkSessionSnapshot"}
     /\ MarketOf(op) = first.market
     /\ result.arg = first.date)
    => result.value = first.snapshot

\* the first classification repeated after three other steps
C7_Witness ==
    /\ first.state = "set"
    /\ first.calls >= 3
    /\ op = "getUsSessionSnapshot"
    /\ first.market = "us"
    /\ result.arg = first.date
    /\ result.value = first.snapshot

-----------------------------------------------------------------------------
(* C8 *)

Labels == {DST_LABEL, STANDARD_LABEL, NO_DST_LABEL}

\* C8: for the canonical registry every classification returns a snapshot
\* whose current session is one of the market's registered sessions or null
C8_Total ==
    op \in {"getUsSessionSnapshot", "getHkSessionSnapshot"}
    => /\ DOMAIN result.value = {"current", "localTime", "dstLabel"}
       /\ \/ result.value.current = Null
          \/ \E i \in 1..Len(catalog) :
                 /\ catalog[i] = result.value.current
                 /\ catalog[i].market = MarketOf(op)
       /\ result.value.dstLabel \in Labels
       /\ Len(result.value.localTime) = 14

C8_Witness ==
    /\ op = "getHkSessionSnapshot"
    /\ result.value.current # Null
    /\ result.value.current.market = "hk"
    /\ result.value.current.name = "HK Evening"

-----------------------------------------------------------------------------
(* C9 *)

Names(defs) == [i \in 1..Len(defs) |-> defs[i].name]

\* C9: listSessionsByMarket returns the market's sessions in display order
\* (US: Pre-market, Regular, After-hours, Overnight; HK: Regular, Evening),
\* the sequence the snapshot functions iterate
C9_ListInDisplayOrder ==
    op = "listSessionsByMarket"
    => /\ Names(result.value)
          = (IF result.arg = "us"
             THEN <<"US Pre-market", "US Regular", "US After-hours", "US Overnight">>
             ELSE <<"HK Regular", "HK Evening">>)
       /\ result.value
          = OrderedDefinitions(IF result.arg = "us" THEN US_SESSION_ORDER
                               ELSE HK_SESSION_ORDER, catalog)

C9_Witness ==
    /\ op = "listSessionsByMarket"
    /\ result.arg = "us"
    /\ Len(result.value) = 4
    /\ result.value[4].name = "US Overnight"

-----------------------------------------------------------------------------
(* C10 *)

\* the table of the specification: name, market, zone, windows in minutes
\* of the day, DST-aware
CanonicalTable ==
    << <<"US Pre-market", "us", NewYork, << <<240, 570>> >>, TRUE>>,
       <<"US Regular", "us", NewYork, << <<570, 960>> >>, TRUE>>,
       <<"US After-hours", "us", NewYork, << <<960, 1200>> >>, TRUE>>,
       <<"US Overnight", "us", NewYork, << <<1200, 240>> >>, TRUE>>,
       <<"HK Regular", "hk", HongKong, << <<570, 720>>, <<780, 960>> >>, FALSE>>,
       <<"HK Evening", "hk", HongKong, << <<1035, 180>> >>, FALSE>> >>

\* C10: the registry holds exactly the canonical sessions, with their
\* windows, zones and DST-awareness, and session names are unique
C10_CanonicalRegistry ==
    /\ Len(catalog) = Len(CanonicalTable)
    /\ \A i \in 1..Len(catalog) :
           /\ catalog[i].name = CanonicalTable[i][1]
           /\ catalog[i].market = CanonicalTable[i][2]
           /\ catalog[i].timeZone = CanonicalTable[i][3]
           /\ [j \in 1..Len(catalog[i].windows) |->
                  <<timeStringToMinutes(catalog[i].windows[j].start),
                    timeStringToMinutes(catalog[i].windows[j].end)>>]
              = CanonicalTable[i][4]
           /\ (computeDstLabel(catalog[i], date, env) # NO_DST_LABEL)
              <=> CanonicalTable[i][5]
    /\ \A i, j \in 1..Len(catalog) : catalog[i].name = catalog[j].name => i = j

C10_Witness ==
    /\ op = "listSessionsByMarket"
    /\ result.arg = "hk"
    /\ Len(result.value) = 2
    /\ Len(result.value[1].windows) = 2
    /\ Len(catalog) = 6

-----------------------------------------------------------------------------
(* A caller that moves hour by hour, over edited catalogs and over the
   runtimes the page can run in *)

\* the markets a caller can pass at run time: the two of the type, and a
\* string the type does not allow
MarketArgs == Markets \cup {"cn"}

\* the zones computeDstLabel is tried on
LabelZones == {NewYork, Sydney}

RemoveAt(defs, i) == SubSeq(defs, 1, i - 1) \o SubSeq(defs, i + 1, Len(defs))

\* SESSION_DEFINITIONS with the windows of its i-th definition replaced
WithWindows(i, ws) == [SESSION_DEFINITIONS EXCEPT ![i].windows = ws]

\* US After-hours with no window at all
ZeroWindowsCatalog == WithWindows(3, <<>>)

\* US After-hours written 16:00-24:00
OutOfRangeCatalog == WithWindows(3, <<TradingWindow(HHMM(16, 0), HHMM(24, 0))>>)

\* the literal array edited: a session without windows, a window past the
\* end of the day, a session of either market left out
EditedCatalogs ==
    {SESSION_DEFINITIONS, ZeroWindowsCatalog, OutOfRangeCatalog,
     RemoveAt(SESSION_DEFINITIONS, 1), RemoveAt(SESSION_DEFINITIONS, 5)}

\* computeDstLabel on a DST-observing definition of the zone
TestDstLabel(zone) ==
    /\ MayCall
    /\ MayOther
    /\ op' = "computeDstLabel"
    /\ result' = [arg |-> zone,
                  value |-> computeDstLabel([catalog[1] EXCEPT !.timeZone = zone,
                                                               !.supportsDst = "undefined"],
                                            date, env),
                  outcome |-> "returned"]
    /\ first' = Counted
    /\ UNCHANGED <<catalog, env, date, app, held>>

\* the caller drops its result and turns to the instant one hour later
LaterInstant ==
    /\ MayOther
    /\ \E i \in 1..NumDstDays : (date + 3600) \div 86400 = SampleDays[i]
    /\ date' = date + 3600
    /\ op' = "none"
    /\ result' = NoCall
    /\ first' = Counted
    /\ UNCHANGED <<catalog, env, app, held>>

NextHourly ==
    \/ GetUsSnapshot
    \/ GetHkSnapshot
    \/ \E market \in MarketArgs : ListSessions(market)
    \/ \E i \in 1..Len(catalog) : TestWindow(i)
    \/ \E zone \in LabelZones : TestDstLabel(zone)
    \/ LaterInstant

\* midnight UTC of the first days of SampleDays
DayStarts(days) == {SampleDays[i] * 86400 : i \in 1..days}

InitEdit == InitWith(EditedCatalogs, DayStarts(NumDstDays), "off")

\* the hourly caller over edited catalogs
SpecEdit == InitEdit /\ [][NextHourly]_vars

InitRt ==
    /\ catalog = SESSION_DEFINITIONS
    /\ env \in Runtimes
    /\ date \in DayStarts(NumDstDays)
    /\ op = "none"
    /\ result = NoCall
    /\ first = NoFirst("off")
    /\ app = NoApp
    /\ held = NoHeld

\* the hourly caller in every runtime
SpecRt == InitRt /\ [][NextHourly]_vars

-----------------------------------------------------------------------------
(* C11 *)

\* a call has returned its value normally
Returned == op # "none" /\ result.outcome = "returned"

\* C11 (as claimed): a registry holding a session with zero windows never
\* becomes usable: no call on it returns normally
C11_ZeroWindowsRejected ==
    (\E i \in 1..Len(catalog) : catalog[i].windows = <<>>) => ~Returned

-----------------------------------------------------------------------------
(* C12 *)

InDay(n) == n >= 0 /\ n <= 1439

WindowInRange(window) ==
    /\ InDay(timeStringToMinutes(window.start))
    /\ InDay(timeStringToMinutes(window.end))

\* C12 (as claimed): a window with a bound outside 0..1439 keeps the registry
\* from being usable, and every window a window test reads is within range
C12_OutOfRangeRejected ==
    /\ (\E i \in 1..Len(catalog) : \E j \in 1..Len(catalog[i].windows) :
            ~WindowInRange(catalog[i].windows[j]))
       => ~Returned
    /\ (op = "isWithinWindow" /\ Returned)
       => \A j \in 1..Len(Tested.windows) : WindowInRange(Tested.windows[j])

-----------------------------------------------------------------------------
(* C13 *)

\* what a listing call that has just returned may hold and may have changed
ListedProperly ==
    /\ result'.outcome = "returned"
    /\ result'.arg \in Markets => Len(result'.value) >= 1
    /\ (result'.value = <<>>)
       <=> ~(\E i \in 1..Len(catalog) : catalog[i].market = result'.arg)
    /\ \A k \in 1..Len(result'.value) :
           /\ result'.value[k].market = result'.arg
           /\ \E i \in 1..Len(catalog) : catalog[i] = result'.value[k]
    /\ catalog' = catalog /\ env' = env /\ date' = date

\* C13: listSessionsByMarket is total and changes nothing; it returns a
\* non-empty sequence for us and hk, and the empty sequence only for a market
\* without configured sessions
C13_ListTotal ==
    [][(op = "none" /\ op' = "listSessionsByMarket") => ListedProperly]_vars

\* the three US sessions of a catalog that lacks US Pre-market
C13_Witness ==
    /\ op = "listSessionsByMarket"
    /\ result.arg = "us"
    /\ Len(result.value) = 3
    /\ Len(catalog) = 5

-----------------------------------------------------------------------------
(* C14 *)

\* C14 (as claimed): an unrecognized market passed to the listing is
\* signaled as an error and gives no normal result
C14_UnknownMarketSignaled ==
    (op = "listSessionsByMarket" /\ result.arg \notin Markets)
    => result.outcome = "threw"

\* C14 (amended): an unrecognized market passed to the listing gives the
\* empty sequence as a normal result
C14_UnknownMarketEmpty ==
    (op = "listSessionsByMarket" /\ result.arg \notin Markets)
    => (result.outcome = "returned" /\ result.value = <<>>)

C14_Witness ==
    /\ op = "listSessionsByMarket"
    /\ result.arg = "cn"
    /\ result.outcome = "returned"

-----------------------------------------------------------------------------
(* C15 *)

\* the names of the order list that the catalog holds
PresentNames(order) ==
    {k \in 1..Len(order) : \E i \in 1..Len(catalog) : catalog[i].name = order[k]}

\* C15: the lookup by name of a market's order list yields the definition of
\* that name and market, a name the catalog lacks is skipped, and a snapshot
\* never carries a definition of the other market
C15_LookupByName ==
    /\ \A order \in {US_SESSION_ORDER, HK_SESSION_ORDER} :
           LET defs == OrderedDefinitions(order, catalog)
               market == IF order = US_SESSION_ORDER THEN "us" ELSE "hk"
           IN  /\ Len(defs) = Cardinality(PresentNames(order))
               /\ \A k \in 1..Len(defs) :
                      /\ defs[k].market = market
                      /\ \E n \in PresentNames(order) : defs[k].name = order[n]
                      /\ \E i \in 1..Len(catalog) : catalog[i] = defs[k]
    /\ (op \in {"getUsSessionSnapshot", "getHkSessionSnapshot"}
        /\ result.value.current # Null)
       => result.value.current.market = MarketOf(op)

\* HK Regular is missing from the catalog and the HK snapshot is returned
\* with the session that is left
C15_Witness ==
    /\ op = "getHkSessionSnapshot"
    /\ PresentNames(HK_SESSION_ORDER) = {2}
    /\ result.outcome = "returned"
    /\ result.value.current # Null
    /\ result.value.current.name = "HK Evening"

-----------------------------------------------------------------------------
(* C16 *)

\* the short names that designate daylight and standard time
DaylightNames == {<<"E", "D", "T">>}
StandardNames == {<<"E", "S", "T">>}

\* the label the offsets alone give: the three measured offsets compared
OffsetLabel(zone, t, rt) ==
    LET cur == getTimeZoneOffsetMinutes(t, zone, rt)
        jan == getTimeZoneOffsetMinutes(DateUTC(getUTCFullYear(t), 0), zone, rt)
        jul == getTimeZoneOffsetMinutes(DateUTC(getUTCFullYear(t), 6), zone, rt)
    IN  IF cur < (IF jan >= jul THEN jan ELSE jul) THEN DST_LABEL ELSE STANDARD_LABEL

\* the zone's short name at the instant of the call, in the runtime of the call
NameAtCall == TimeZoneNameShort(date, result.arg, env.tzName)

NameDecides == NameAtCall \in DaylightNames \cup StandardNames

\* C16: for a DST-observing definition a daylight abbreviation gives the
\* daylight label, a standard abbreviation the standard label, and the
\* offsets decide only when the abbreviation is missing or is neither
C16_NameFirst ==
    op = "computeDstLabel"
    => /\ NameAtCall \in DaylightNames => result.value = DST_LABEL
       /\ NameAtCall \in StandardNames => result.value = STANDARD_LABEL
       /\ ~NameDecides => result.value = OffsetLabel(result.arg, date, env)

\* EDT gives the daylight label where the offsets alone would have said standard
C16_Witness ==
    /\ op = "computeDstLabel"
    /\ NameAtCall = <<"E", "D", "T">>
    /\ result.value = DST_LABEL
    /\ OffsetLabel(result.arg, date, env) = STANDARD_LABEL

-----------------------------------------------------------------------------
(* C17 *)

Larger(a, b) == IF a >= b THEN a ELSE b
Smaller(a, b) == IF a <= b THEN a ELSE b

\* January 1 and July 1 of 2024, 00:00 UTC
January1 == DateUTC(2024, 0)
July1 == DateUTC(2024, 6)

\* C17: in the fallback the baseline is the larger of the offsets measured
\* at January 1 and July 1, and the label is daylight exactly when the
\* instant's measured offset is strictly below it; on a host in UTC that is:
\* exactly when the zone's clock is ahead of the less advanced of the two
C17_FallbackBaseline ==
    (op = "computeDstLabel" /\ ~NameDecides)
    => LET zone == result.arg
           cur == getTimeZoneOffsetMinutes(date, zone, env)
           baseline == Larger(getTimeZoneOffsetMinutes(January1, zone, env),
                              getTimeZoneOffsetMinutes(July1, zone, env))
           standard == Smaller(UtcOffsetMinutes(zone, January1),
                               UtcOffsetMinutes(zone, July1))
       IN  /\ result.value = (IF cur < baseline THEN DST_LABEL ELSE STANDARD_LABEL)
           /\ env.hostZone = "UTC"
              => /\ baseline = 0 - standard
                 /\ (result.value = DST_LABEL)
                    <=> UtcOffsetMinutes(zone, date) > standard

\* Sydney in January on a host in UTC: the baseline is the July offset
C17_Witness ==
    /\ op = "computeDstLabel"
    /\ ~NameDecides
    /\ result.arg = Sydney
    /\ env.hostZone = "UTC"
    /\ getTimeZoneOffsetMinutes(January1, Sydney, env)
       < getTimeZoneOffsetMinutes(July1, Sydney, env)
    /\ getTimeZoneOffsetMinutes(date, Sydney, env)
       < getTimeZoneOffsetMinutes(July1, Sydney, env)
    /\ result.value = DST_LABEL

-----------------------------------------------------------------------------
(* C18 *)

\* the zone is on daylight time at t
InDstRegime(zone, t) ==
    UtcOffsetMinutes(zone, t)
    > Smaller(UtcOffsetMinutes(zone, January1), UtcOffsetMinutes(zone, July1))

\* C18 (as claimed): in either hemisphere the fallback returns daylight for
\* every instant of the DST regime and standard for every other instant
C18_FallbackEitherHemisphere ==
    (op = "computeDstLabel" /\ ~NameDecides)
    => (result.value = DST_LABEL <=> InDstRegime(result.arg, date))

-----------------------------------------------------------------------------
(* C19 *)

\* the US label at t, and what the offsets alone say at t
UsLabel(t) == computeDstLabel(catalog[1], t, env)
UsOffsetLabel(t) == OffsetLabel(catalog[1].timeZone, t, env)

\* the labels of two instants in a row, by the name and by the offsets alone
LabelsAcross(before, after) ==
    /\ UsLabel(date) = before /\ UsLabel(date') = after
    /\ UsOffsetLabel(date) = before /\ UsOffsetLabel(date') = after

\* C19 (as claimed): from one instant to the next the US label goes from
\* standard to daylight exactly at the spring transition and back exactly at
\* the autumn one, and the offsets alone give the same labels
C19_FlipsAtTransitions ==
    [][date' = date + 3600
       => CASE date' = NewYorkDstStart -> LabelsAcross(STANDARD_LABEL, DST_LABEL)
            [] date' = NewYorkDstEnd -> LabelsAcross(DST_LABEL, STANDARD_LABEL)
            [] OTHER -> \/ LabelsAcross(DST_LABEL, DST_LABEL)
                        \/ LabelsAcross(STANDARD_LABEL, STANDARD_LABEL)]_vars

-----------------------------------------------------------------------------
(* C20 *)

\* 2024-06-15T14:00:00 in New York, which is 18:00:00 UTC
June15At14NewYork == 166 * 86400 + 18 * 3600

\* C20: the US snapshot of 2024-06-15 14:00:00 New York time has the regular
\* session, a local time holding "06/15 14:00:00" and the daylight label
C20_June15Example ==
    (op = "getUsSessionSnapshot" /\ date = June15At14NewYork)
    => /\ result.value.current # Null
       /\ result.value.current.name = "US Regular"
       /\ includes(result.value.localTime,
                   <<"0", "6", "/", "1", "5", " ", "1", "4", ":", "0", "0", ":", "0", "0">>)
       /\ result.value.dstLabel = DST_LABEL

C20_Witness ==
    /\ op = "getUsSessionSnapshot"
    /\ date = June15At14NewYork
    /\ CivilTime(NewYork, date)
       = [year |-> 2024, month |-> 6, day |-> 15, hour |-> 14, minute |-> 0, second |-> 0]
    /\ result.outcome = "returned"

-----------------------------------------------------------------------------
(* Several callers of the module at once.  The exported functions are
   synchronous, so the runtime runs each call to its end before the next:
   an interleaving of callers is an order of whole calls *)

\* how many components call the module
NumCallers == 2

Callers == 1..NumCallers

\* the instants the callers pass: four hours of the first sampled day
CallerInstants == {SampleDays[1] * 86400 + h * 3600 : h \in {2, 9, 13, 18}}

IdleCall == [name |-> "none", arg |-> "none", value |-> "none", outcome |-> "none"]

\* caller c asks for the snapshot of a market at instant t and keeps it
CallerClassifies(c, market, t) ==
    /\ held' = [held EXCEPT ![c] =
                   [name |-> IF market = "us" THEN "getUsSessionSnapshot"
                             ELSE "getHkSessionSnapshot",
                    arg |-> t,
                    value |-> IF market = "us"
                              THEN getUsSessionSnapshot(catalog, t, env)
                              ELSE getHkSessionSnapshot(catalog, t, env),
                    outcome |-> "returned"]]
    /\ UNCHANGED <<catalog, env, date, op, result, first, app>>

\* the listed sessions cut out of the shared array: splice written for filter
CallerLists_Splice(c, market) ==
    /\ held' = [held EXCEPT ![c] =
                   [name |-> "listSessionsByMarket", arg |-> market,
                    value |-> listSessionsByMarket(catalog, market),
                    outcome |-> "returned"]]
    /\ catalog' = SelectSeq(catalog, LAMBDA d : d.market # market)
    /\ UNCHANGED <<env, date, op, result, first, app>>

\* caller c lists the sessions of a market and keeps the list
CallerLists(c, market) ==
    /\ held' = [held EXCEPT ![c] =
                   [name |-> "listSessionsByMarket", arg |-> market,
                    value |-> listSessionsByMarket(catalog, market),
                    outcome |-> "returned"]]
    /\ UNCHANGED <<catalog, env, date, op, result, first, app>>

NextCallers ==
    \/ \E c \in Callers, market \in Markets, t \in CallerInstants :
           CallerClassifies(c, market, t)
    \/ \E c \in Callers, market \in MarketArgs : CallerLists(c, market)

InitCallers ==
    /\ catalog = SESSION_DEFINITIONS
    /\ env = DefaultRuntime
    /\ date = SampleDays[1] * 86400
    /\ op = "none"
    /\ result = NoCall
    /\ first = NoFirst("off")
    /\ app = NoApp
    /\ held = [c \in Callers |-> IdleCall]

\* any number of callers, their calls in any order
SpecCallers == InitCallers /\ [][NextCallers]_vars

-----------------------------------------------------------------------------
(* C21 *)

\* what the call gives when it is the only call ever made
RunAlone(call) ==
    CASE call.name = "getUsSessionSnapshot" ->
             getUsSessionSnapshot(SESSION_DEFINITIONS, call.arg, env)
      [] call.name = "getHkSessionSnapshot" ->
             getHkSessionSnapshot(SESSION_DEFINITIONS, call.arg, env)
      [] OTHER -> listSessionsByMarket(SESSION_DEFINITIONS, call.arg)

\* C21: whatever the order of the callers' calls, each call returned what it
\* returns when run alone, and the session catalog is what it was at the start
C21_NoSharedState ==
    /\ catalog = SESSION_DEFINITIONS
    /\ \A c \in DOMAIN held :
           held[c].name # "none"
           => (held[c].outcome = "returned" /\ held[c].value = RunAlone(held[c]))

\* two callers hold results of different calls at the same time, one of them
\* a list that was taken before the other's snapshot or after it
C21_Witness ==
    /\ held # NoHeld
    /\ \E c1, c2 \in DOMAIN held :
           /\ held[c1].name = "listSessionsByMarket"
           /\ held[c1].arg = "us"
           /\ held[c2].name = "getUsSessionSnapshot"
           /\ held[c2].value.current # Null

-----------------------------------------------------------------------------
(* C22 *)

\* C22 (as claimed): the offset that the fallback measures for the zone of
\* the call at the instant of the call is the zone's offset from UTC (in
\* either sign), on every host
C22_OffsetIsZoneOffset ==
    op = "computeDstLabel"
    => LET measured == getTimeZoneOffsetMinutes(date, result.arg, env)
           offset == UtcOffsetMinutes(result.arg, date)
       IN  measured = 0 - offset \/ measured = offset

-----------------------------------------------------------------------------
(* C23 *)

\* the definition a market's snapshot takes its label from
FirstListed(order) ==
    LET defs == OrderedDefinitions(order, catalog)
    IN  IF defs = <<>> THEN Null ELSE defs[1]

\* C23: the label of a snapshot is the label of the market's first-listed
\* definition at the instant, whether or not a session is active and
\* whichever it is: the fixed label for HK, and for the US the regime New
\* York is in
C23_LabelFromFirstListed ==
    op \in {"getUsSessionSnapshot", "getHkSessionSnapshot"}
    => LET order == IF op = "getUsSessionSnapshot" THEN US_SESSION_ORDER
                    ELSE HK_SESSION_ORDER
       IN  /\ result.value.dstLabel = computeDstLabel(FirstListed(order), date, env)
           /\ result.value.dstLabel =
                  (CASE op = "getHkSessionSnapshot" -> NO_DST_LABEL
                     [] InDstRegime(NewYork, date) -> DST_LABEL
                     [] OTHER -> STANDARD_LABEL)

\* the HK market is closed and the snapshot still has the HK label
C23_Witness ==
    /\ op = "getHkSessionSnapshot"
    /\ result.value.current = Null
    /\ result.value.dstLabel = NO_DST_LABEL
    /\ FirstListed(HK_SESSION_ORDER) # Null

-----------------------------------------------------------------------------
(* C24 *)

\* instants of the same civil hour and minute as t in the zone: other
\* seconds of t's minute, and that minute on each sampled day
SameCivilMinute(zone, t) ==
    LET c == CivilTime(zone, t)
        minuteStart == t - (t % 60)
        candidates ==
            {minuteStart + s : s \in {0, 1, 30, 59}}
            \cup {SampleDays[i] * 86400 + (minuteStart % 86400) + k * 3600 + s :
                      i \in 1..NumDays, k \in {0 - 1, 0, 1}, s \in {0, 59}}
    IN  {u \in candidates :
            /\ CivilTime(zone, u).hour = c.hour
            /\ CivilTime(zone, u).minute = c.minute}

\* C24: two instants of the same civil hour and minute of the market's zone,
\* whatever their seconds and their dates, have the same current session
C24_MinuteGranularity ==
    op \in {"getUsSessionSnapshot", "getHkSessionSnapshot"}
    => LET us == op = "getUsSessionSnapshot"
           defs == OrderedDefinitions(
                       IF us THEN US_SESSION_ORDER ELSE HK_SESSION_ORDER, catalog)
       IN  \A u \in SameCivilMinute(IF us THEN NewYork ELSE HongKong, date) :
               FindCurrent(defs, u) = result.value.current

\* a snapshot taken one second into a minute, with the session of the
\* same minute of the other day, an hour apart in UTC across the DST switch
C24_Witness ==
    /\ op = "getUsSessionSnapshot"
    /\ date % 60 = 1
    /\ result.value.current # Null
    /\ \E u \in SameCivilMinute(NewYork, date) :
           /\ u \div 86400 # date \div 86400
           /\ u % 86400 # (date - 1) % 86400

-----------------------------------------------------------------------------
(* C25 *)

\* the US session of a New York minute-of-day, by the four change points
ExpectedUsSession(m) ==
    CASE m >= 240 /\ m < 570 -> "US Pre-market"
      [] m >= 570 /\ m < 960 -> "US Regular"
      [] m >= 960 /\ m < 1200 -> "US After-hours"
      [] OTHER -> "US Overnight"

\* C25: at every minute of the day exactly one US session of the canonical
\* catalog is active, the US snapshot has a current session, and it is the
\* one that 04:00, 09:30, 16:00 and 20:00 New York time delimit
C25_UsPartition ==
    op = "getUsSessionSnapshot"
    => /\ result.value.current # Null
       /\ Cardinality({i \in 1..Len(catalog) :
                          catalog[i].market = "us" /\ isWithinWindow(date, catalog[i])}) = 1
       /\ result.value.current.name = ExpectedUsSession(NewYorkMinute)

\* 20:00 in New York: the first minute of the overnight session
C25_Witness ==
    /\ op = "getUsSessionSnapshot"
    /\ NewYorkMinute = 1200
    /\ result.value.current # Null
    /\ result.value.current.name = "US Overnight"

-----------------------------------------------------------------------------
(* C26 *)

\* every window of the definition starts and ends at the same minute
OnlyEmptyWindows(definition) ==
    /\ definition.windows # <<>>
    /\ \A j \in 1..Len(definition.windows) :
           RefMinutesOf(definition.windows[j].start)
           = RefMinutesOf(definition.windows[j].end)

\* window bounds tried besides those of the catalog
GridTimes == {HHMM(0, 0), HHMM(0, 1), HHMM(9, 30), HHMM(12, 0), HHMM(23, 59)}

\* C26: a window whose start equals its end contains no minute, its own
\* start minute included (it is not taken for a whole day), and a session
\* with only such windows is not active
C26_EmptyWindow ==
    op = "isWithinWindow"
    => LET m == getMinutesInTimeZone(date, Tested.timeZone)
       IN  /\ \A g \in GridTimes : ~WindowContains(TradingWindow(g, g), m)
           /\ OnlyEmptyWindows(Tested)
              => /\ result.value = FALSE
                 /\ \A j \in 1..Len(Tested.windows) :
                        ~WindowContains(Tested.windows[j], m)

\* the test made at the very minute at which the empty window starts
C26_Witness ==
    /\ op = "isWithinWindow"
    /\ OnlyEmptyWindows(Tested)
    /\ RefMinuteOfDay(Tested.timeZone, date) = RefMinutesOf(Tested.windows[1].start)
    /\ result.value = FALSE

-----------------------------------------------------------------------------
(* C27 *)

\* the window with its bounds exchanged
Reversed(window) == TradingWindow(window.end, window.start)

\* C27: a wrapping window [s, e), s > e, contains the minute of the call
\* exactly when the window [e, s) does not: for the wrapping window a call
\* tested, and for every pair of distinct bounds of the grid
C27_WrapIsComplement ==
    op = "isWithinWindow"
    => LET m == getMinutesInTimeZone(date, Tested.timeZone)
       IN  /\ (Len(Tested.windows) = 1
               /\ RefMinutesOf(Tested.windows[1].start)
                  > RefMinutesOf(Tested.windows[1].end))
              => (result.value <=> ~WindowContains(Reversed(Tested.windows[1]), m))
           /\ \A s, e \in GridTimes :
                  RefMinutesOf(s) > RefMinutesOf(e)
                  => (WindowContains(TradingWindow(s, e), m)
                      <=> ~WindowContains(TradingWindow(e, s), m))

\* the test of a wrapping window at its end minute: outside it, and inside
\* the reversed window
C27_Witness ==
    /\ op = "isWithinWindow"
    /\ Len(Tested.windows) = 1
    /\ RefMinutesOf(Tested.windows[1].start) > RefMinutesOf(Tested.windows[1].end)
    /\ RefMinuteOfDay(Tested.timeZone, date) = RefMinutesOf(Tested.windows[1].end)
    /\ result.value = FALSE
    /\ WindowContains(Reversed(Tested.windows[1]), RefMinuteOfDay(Tested.timeZone, date))

-----------------------------------------------------------------------------
(* C28 *)

\* the parts of the formatter with those of one type left out
PartsWithout(parts, type) == SelectSeq(parts, LAMBDA part : part.type # type)

-----------------------------------------------------------------------------
(* The App component: its clock state, its one-second interval and what it
   renders.  The wall clock is the variable date; a rendering is over before
   the clock moves on.  A rendering is kept as the instants the two useMemo
   calls passed and the dialog's flag: the page is a function of these *)

\* the sampled days on which the page is open
NumAppDays == 1

\* clock steps the interval may be late by
MaxLag == 2

\* the status a card shows for a closed market
MARKET_CLOSED == "market closed"

\* snapshot.current.name read without the fallback: the rendering fails
CardStatus_NoFallback(snapshot) ==
    IF snapshot.current = Null THEN "TypeError" ELSE snapshot.current.name

\* SessionCardRow: snapshot.current?.name ?? MARKET_CLOSED
CardStatus(snapshot) ==
    IF snapshot.current = Null THEN MARKET_CLOSED ELSE snapshot.current.name

\* the legend of a market: for each listed session, whether it is shown
\* active: session.name === snapshot.current?.name
Legend(sessions, snapshot) ==
    [k \in 1..Len(sessions) |->
        snapshot.current # Null /\ sessions[k].name = snapshot.current.name]

\* what App returns: the two cards, and the legend that the dialog shows
\* when it is open
Page(shown) ==
    LET usSnapshot == getUsSessionSnapshot(catalog, shown.usAt, env)
        hkSnapshot == getHkSessionSnapshot(catalog, shown.hkAt, env)
        usSessions == listSessionsByMarket(catalog, "us")
        hkSessions == listSessionsByMarket(catalog, "hk")
    IN  [usSnapshot |-> usSnapshot, hkSnapshot |-> hkSnapshot,
         usStatus |-> CardStatus(usSnapshot), hkStatus |-> CardStatus(hkSnapshot),
         usSessions |-> usSessions, hkSessions |-> hkSessions,
         usLegend |-> Legend(usSessions, usSnapshot),
         hkLegend |-> Legend(hkSessions, hkSnapshot)]

\* a rendering of the state (now, sessionDialogOpen)
Rendering(now, open) == [usAt |-> now, hkAt |-> now, dialogOpen |-> open]

Unmounted == [NoApp EXCEPT !.timer = "cleared"]

\* the component is mounted: first rendering, then the effect sets the interval
Mount ==
    /\ ~app.mounted
    /\ app' = [mounted |-> TRUE, timer |-> "set", now |-> date, stale |-> FALSE,
               dialogOpen |-> FALSE, shown |-> Rendering(date, FALSE),
               behind |-> 0]
    /\ UNCHANGED <<catalog, env, date, op, result, first, held>>

\* the interval's callback: setNow(new Date())
IntervalFires ==
    /\ app.timer = "set"
    /\ app' = IF app.mounted THEN [app EXCEPT !.now = date, !.stale = TRUE, !.behind = 0]
              ELSE app
    /\ UNCHANGED <<catalog, env, date, op, result, first, held>>

\* React renders the component again after a change of its state
Render ==
    /\ app.mounted
    /\ app.stale
    /\ app' = [app EXCEPT !.stale = FALSE,
                          !.shown = Rendering(app.now, app.dialogOpen)]
    /\ UNCHANGED <<catalog, env, date, op, result, first, held>>

\* the question-mark button and the dialog's close button
SetSessionDialogOpen(open) ==
    /\ app.mounted
    /\ app.shown.dialogOpen # open
    /\ app' = [app EXCEPT !.dialogOpen = open, !.stale = TRUE]
    /\ UNCHANGED <<catalog, env, date, op, result, first, held>>

\* the effect's cleanup left out: the interval outlives the component
Unmount_KeepsTimer ==
    /\ app.mounted
    /\ app' = [Unmounted EXCEPT !.timer = "set"]
    /\ UNCHANGED <<catalog, env, date, op, result, first, held>>

\* the component is unmounted: the effect's cleanup clears the interval
Unmount ==
    /\ app.mounted
    /\ app' = Unmounted
    /\ UNCHANGED <<catalog, env, date, op, result, first, held>>

\* the wall clock moves on: by a second at the start of an hour, or to the
\* next hour
ClockAdvances(step) ==
    /\ step = 1 => date % 3600 < MaxSec
    /\ step # 1 => step = 3600 - (date % 3600)
    /\ \E i \in 1..NumAppDays : (date + step) \div 86400 = SampleDays[i]
    /\ app.mounted => (~app.stale /\ app.behind < MaxLag)
    /\ date' = date + step
    /\ app' = IF app.mounted THEN [app EXCEPT !.behind = @ + 1] ELSE app
    /\ UNCHANGED <<catalog, env, op, result, first, held>>

NextApp ==
    \/ Mount
    \/ IntervalFires
    \/ Render
    \/ \E open \in BOOLEAN : SetSessionDialogOpen(open)
    \/ Unmount
    \/ \E step \in 1..3600 : ClockAdvances(step)

InitApp ==
    /\ catalog = SESSION_DEFINITIONS
    /\ env = DefaultRuntime
    /\ date \in DayStarts(NumAppDays)
    /\ op = "none"
    /\ result = NoCall
    /\ first = NoFirst("off")
    /\ app = NoApp
    /\ held = NoHeld

\* the page from before its mounting on
SpecApp == InitApp /\ [][NextApp]_vars

\* the browser runs the callback of an interval that is set, and React
\* renders a component whose state has changed
SpecAppLive == SpecApp /\ WF_vars(IntervalFires) /\ WF_vars(Render)

-----------------------------------------------------------------------------
(* C29 *)

\* the two snapshots on the page are those of one instant, the one the
\* state held when the page was rendered
ShownFromOneInstant ==
    app.shown # Null
    => /\ app.shown.usAt = app.shown.hkAt
       /\ ~app.stale => app.shown.usAt = app.now

\* the interval is set exactly while the component is mounted
TimerWithComponent ==
    /\ app.mounted <=> app.timer = "set"
    /\ app.mounted <=> app.shown # Null

\* a step that replaces the state's instant puts the clock's instant there
\* and asks for a rendering; nothing changes an unmounted component
TickReplacesInstant ==
    /\ (app.mounted /\ app'.mounted /\ app'.now # app.now)
       => (app'.now = date /\ app'.stale)
    /\ (~app.mounted /\ ~app'.mounted) => app' = app

\* the page on the screen is the one of the clock's instant
PageUpToDate == ~app.stale /\ app.shown.usAt = date /\ app.shown.hkAt = date

\* C29: while App is mounted its interval is set and its ticks replace the
\* instant, so that again and again the page is the one of the clock's
\* instant (until the unmounting); the two snapshots of a page are of one
\* same instant; once unmounted the interval is cleared and no step changes
\* the component
C29_TimerRefreshes ==
    /\ [](ShownFromOneInstant /\ TimerWithComponent)
    /\ [][TickReplacesInstant]_vars
    /\ app.mounted ~> (~app.mounted \/ PageUpToDate)

\* a page rendered for the instant a tick stored, one second into an hour,
\* with the dialog opened on an earlier page
C29_Witness ==
    /\ app.mounted
    /\ ~app.stale
    /\ app.shown.dialogOpen
    /\ app.shown.usAt = date
    /\ app.shown.hkAt = date
    /\ date % 3600 = 1

-----------------------------------------------------------------------------
(* C30 *)

Highlighted(legend) == {k \in 1..Len(legend) : legend[k]}

\* what a card and a legend show for one market's snapshot
CardAndLegendProper(snapshot, status, legend, sessions) ==
    /\ snapshot.current = Null => (status = MARKET_CLOSED /\ Highlighted(legend) = {})
    /\ snapshot.current # Null => status = snapshot.current.name
    /\ Len(legend) = Len(sessions)
    /\ \A k \in 1..Len(legend) :
           legend[k] <=> (snapshot.current # Null
                          /\ sessions[k].name = snapshot.current.name)
    /\ Cardinality(Highlighted(legend)) <= 1

\* C30: for a snapshot without current session the card shows the
\* market-closed status and the rendering does not fail; a session of the
\* legend is highlighted exactly when its name is that of the current
\* session: at most one per market, none for a closed market
C30_ClosedIsNormal ==
    app.shown # Null
    => LET page == Page(app.shown)
       IN  /\ CardAndLegendProper(page.usSnapshot, page.usStatus,
                                  page.usLegend, page.usSessions)
           /\ CardAndLegendProper(page.hkSnapshot, page.hkStatus,
                                  page.hkLegend, page.hkSessions)

\* the dialog is open while HK is closed and a US session is highlighted
C30_Witness ==
    /\ app.shown # Null
    /\ app.shown.dialogOpen
    /\ Page(app.shown).hkSnapshot.current = Null
    /\ Page(app.shown).hkStatus = MARKET_CLOSED
    /\ Highlighted(Page(app.shown).hkLegend) = {}
    /\ Cardinality(Highlighted(Page(app.shown).usLegend)) = 1

====
